---- MODULE Spec2Model ----
(***************************************************************************)
(* Model of plugins/modules/prtg.py: one invocation of the module (main)   *)
(* against a PRTG server, as a sequence of API calls and decisions.        *)
(*                                                                         *)
(* Strings that the code inspects (device names, hosts, the URL returned   *)
(* by duplicateobject, XML attribute values) are sequences of one-char     *)
(* strings, so that lower(), "in", == and the regular expression are       *)
(* computed, not assumed.  Python's None is NoId for ids and <<>> for      *)
(* strings; both are falsy, as in the code's "if not device_id".           *)
(***************************************************************************)
EXTENDS Integers, Sequences, FiniteSets, TLC

VARIABLES
    devices,      \* remote: the device listing, in the order the server returns it
    nextId,       \* remote: the object id the server gives to the next new object
    devices0,     \* remote listing at the start of the current invocation
    params,       \* module.params and module.check_mode of the current invocation
    pc,           \* position of main()
    device_id,    \* main's local device_id
    dev,          \* main's local dev: <<>> while unbound, else <<record>>
    dest_group,   \* main's local dest_group
    new_dev_id,   \* main's local new_dev_id (a digit string)
    group_result, \* main's local group_result: <<>> while unbound, else the parsed document
    create_info,  \* main's local create_info['url']: <<>> while unbound
    calls,        \* the API calls issued by the current invocation, in order
    result,       \* terminal outcome of the current invocation
    prev          \* summaries of the finished earlier invocations

vars == <<devices, nextId, devices0, params, pc, device_id, dev, dest_group,
          new_dev_id, group_result, create_info, calls, result, prev>>

----------------------------------------------------------------------------
(* Bounds *)

MaxDevices == 2

----------------------------------------------------------------------------
(* Values *)

NoId == 0            \* None for an id-valued parameter or local
NoStatus == 0        \* fetch_url gave no status
ActivePaused == 0    \* active_raw of a paused device
ActiveRunning == -1  \* active_raw of an active device
ActiveUnknown == 1   \* any other active_raw

Statuses == {200, 302, 400, 401, 404, 500, NoStatus}

PathTable == "/api/table.json"
PathGroup == "/api/getobjectstatus.htm"
PathDuplicate == "/api/duplicateobject.htm"
PathPause == "/api/pause.htm"
PathDelete == "/api/deleteobject.htm"

MutatingPaths == {PathDuplicate, PathPause, PathDelete}

MsgCredentials == "Invalid API credentials"
MsgUrl == "Invalid API URL"
MsgBadRequest == "The API call could not be completed successfully"
MsgUnreachable == "Unable to reach API server"
MsgPause == "Failed to pause device"
MsgRequest == "API request failed"
MsgCloneFrom == "Unable to create new device because: clone_from parameter not specified"
MsgGroup == "Unable to find parent group of clone_from"
MsgNewId == "Unable to parse new device ID from return request"
MsgDelete == "Failed to delete device"
ErrUnbound == "UnboundLocalError"
ErrIndex == "IndexError"

----------------------------------------------------------------------------
(* Strings *)

LowerChar(c) ==
    CASE c = "W" -> "w"
      [] c = "B" -> "b"
      [] c = "H" -> "h"
      [] OTHER -> c

\* str.lower()
Lower(s) == [i \in 1..Len(s) |-> LowerChar(s[i])]

\* sub in s
Contains(sub, s) ==
    \E i \in 0..(Len(s) - Len(sub)) : SubSeq(s, i + 1, i + Len(sub)) = sub

DigitChars == <<"0", "1", "2", "3", "4", "5", "6", "7", "8", "9">>

IsDigit(c) == \E d \in 1..Len(DigitChars) : DigitChars[d] = c

DigitVal(c) == (CHOOSE d \in 1..Len(DigitChars) : DigitChars[d] = c) - 1

\* int(s) of a digit string, as the server reads the id parameter
RECURSIVE StrToNat(_)
StrToNat(s) ==
    IF s = <<>> THEN 0
    ELSE 10 * StrToNat(SubSeq(s, 1, Len(s) - 1)) + DigitVal(s[Len(s)])

\* str(n)
RECURSIVE NatToStr(_)
NatToStr(n) ==
    IF n < 10 THEN <<DigitChars[n + 1]>>
    ELSE NatToStr(n \div 10) \o <<DigitChars[(n % 10) + 1]>>

IdMarker == <<"i", "d", "%", "3", "D">>

\* the longest run of digits of s that starts at position i
RECURSIVE DigitRun(_, _)
DigitRun(s, i) ==
    IF i <= Len(s) /\ IsDigit(s[i]) THEN <<s[i]>> \o DigitRun(s, i + 1) ELSE <<>>

\* positions where 'id%3D([0-9]+)' matches in url
MatchStarts(url) ==
    {i \in 1..Len(url) :
        /\ i + Len(IdMarker) <= Len(url)
        /\ SubSeq(url, i, i + Len(IdMarker) - 1) = IdMarker
        /\ IsDigit(url[i + Len(IdMarker)])}

\* new_dev_re.search(url): <<>> for no match, else <<group(1)>>
NewDevMatch(url) ==
    IF MatchStarts(url) = {} THEN <<>>
    ELSE LET i == CHOOSE j \in MatchStarts(url) : \A k \in MatchStarts(url) : j <= k
         IN  <<DigitRun(url, i + Len(IdMarker))>>

----------------------------------------------------------------------------
(* validate_response *)

\* validate_response without its branch for 400
ValidateFailsNo400(status) ==
    IF status # NoStatus
    THEN CASE status = 401 -> MsgCredentials
           [] status = 404 -> MsgUrl
           [] OTHER -> ""
    ELSE MsgUnreachable

\* the message validate_response fails with, "" when it returns
ValidateFails(status) ==
    IF status # NoStatus
    THEN CASE status = 401 -> MsgCredentials
           [] status = 404 -> MsgUrl
           [] status = 400 -> MsgBadRequest
           [] OTHER -> ""
    ELSE MsgUnreachable

\* validate_response that takes a redirect for a success
ValidateRedirectOk(status) ==
    IF status = 200 \/ status = 302 THEN 200 ELSE 0

\* the value validate_response returns when it returns
validate_response(status) ==
    IF status = 200 THEN 200
    ELSE IF status = 302 THEN 302
    ELSE 0

\* the failure message of "api_call; if validate_response(...) != 200: fail_json(msg)",
\* "" when the call passes
CallFails(status, msg) ==
    IF ValidateFails(status) # "" THEN ValidateFails(status)
    ELSE IF validate_response(status) # 200 THEN msg
    ELSE ""

\* one api_call as the server sees it; read says whether the body was read
Call(path, id, action, targetid, filter, status, read) ==
    [path |-> path, id |-> id, action |-> action, targetid |-> targetid,
     filter |-> filter, status |-> status, read |-> read]

----------------------------------------------------------------------------
(* The remote system *)

Device(objid, device, host, active_raw) ==
    [objid |-> objid, device |-> device, host |-> host, active_raw |-> active_raw]


\* table.json with filter_objid
FilterObjid(listing, id) ==
    LET Is(d) == d.objid = id IN SelectSeq(listing, Is)

\* pause.htm: action 0 pauses, action 1 resumes
RemotePause(listing, id, action) ==
    [i \in 1..Len(listing) |->
        IF listing[i].objid = id
        THEN [listing[i] EXCEPT !.active_raw =
                 IF action = 1 THEN ActiveRunning ELSE ActivePaused]
        ELSE listing[i]]

\* duplicateobject.htm: the clone is created paused
RemoteDuplicate(listing, newid, name, host) ==
    Append(listing, Device(newid, name, host, ActivePaused))

\* deleteobject.htm
RemoteDelete(listing, id) ==
    LET Keep(d) == d.objid # id IN SelectSeq(listing, Keep)

\* the URLs duplicateobject.htm may come back with
DuplicateUrls(newid) ==
    { <<"?">> \o IdMarker \o NatToStr(newid),
      <<"?">> \o IdMarker \o <<"x">>,
      <<"/">> }

\* the documents getobjectstatus.htm may answer: a sequence of children,
\* each with a tag and its own children's thisid attributes
GroupBodies ==
    { << [tag |-> "version", kids |-> <<>>], [tag |-> "result", kids |-> << <<"8">> >>] >>,
      << [tag |-> "version", kids |-> <<>>], [tag |-> "error", kids |-> <<>>] >>,
      << [tag |-> "version", kids |-> <<>>], [tag |-> "result", kids |-> <<>>] >>,
      << [tag |-> "version", kids |-> <<>>] >> }

----------------------------------------------------------------------------
(* Inputs *)

DeviceNames == { <<"W", "b">>, <<"x">> }
DeviceHosts == { <<"h">>, <<"W", "B">> }
ActiveRaws == {ActivePaused, ActiveRunning, ActiveUnknown}
TargetNames == { <<"w", "b">>, <<"w">>, <<"z">> }

\* listings of n devices with object ids 1..n
Listings(n) ==
    { [i \in 1..n |-> Device(i, f[i][1], f[i][2], f[i][3])] :
        f \in [1..n -> DeviceNames \X DeviceHosts \X ActiveRaws] }

Remotes == UNION { Listings(n) : n \in 0..MaxDevices }

Selectors ==
    { [device_id |-> i, device_name |-> <<>>] : i \in 1..2 }
    \cup { [device_id |-> NoId, device_name |-> n] : n \in TargetNames }

Params ==
    { [device_id |-> s.device_id, device_name |-> s.device_name, state |-> st,
       enabled |-> en, clone_from |-> cf, dest_group |-> dg, check_mode |-> cm] :
        s \in Selectors, st \in {"present", "absent"}, en \in BOOLEAN,
        cf \in {NoId, 1}, dg \in {NoId, 7}, cm \in BOOLEAN }

NoResult == [kind |-> "none", changed |-> FALSE, msg |-> ""]

----------------------------------------------------------------------------
(* main *)

Init ==
    /\ devices \in Remotes
    /\ nextId = MaxDevices + 1
    /\ devices0 = devices
    /\ params \in Params
    /\ pc = "resolve"
    /\ device_id = params.device_id
    /\ dev = <<>>
    /\ dest_group = NoId
    /\ new_dev_id = <<>>
    /\ group_result = <<>>
    /\ create_info = <<>>
    /\ calls = <<>>
    /\ result = NoResult
    /\ prev = <<>>

\* module.fail_json(msg=m)
Fail(m) ==
    /\ pc' = "done"
    /\ result' = [kind |-> "fail", changed |-> FALSE, msg |-> m]

\* module.exit_json(changed=c)
Exit(c) ==
    /\ pc' = "done"
    /\ result' = [kind |-> "exit", changed |-> c, msg |-> ""]

\* an exception nothing catches
Crash(e) ==
    /\ pc' = "done"
    /\ result' = [kind |-> "crash", changed |-> FALSE, msg |-> e]

\* the name lookup taking the host as a substring too
RECURSIVE ScanHostContains(_, _, _, _, _)
ScanHostContains(listing, i, name, id, d) ==
    IF i > Len(listing) THEN [device_id |-> id, dev |-> d]
    ELSE IF Contains(Lower(name), Lower(listing[i].device))
         THEN [device_id |-> listing[i].objid, dev |-> <<listing[i]>>]
    ELSE IF Contains(Lower(name), Lower(listing[i].host))
         THEN [device_id |-> listing[i].objid, dev |-> <<listing[i]>>]
    ELSE ScanHostContains(listing, i + 1, name, id, <<listing[i]>>)

\* the name lookup comparing the name in full instead of as a substring
RECURSIVE ScanExact(_, _, _, _, _)
ScanExact(listing, i, name, id, d) ==
    IF i > Len(listing) THEN [device_id |-> id, dev |-> d]
    ELSE IF Lower(name) = Lower(listing[i].device)
         THEN [device_id |-> listing[i].objid, dev |-> <<listing[i]>>]
    ELSE IF Lower(name) = Lower(listing[i].host)
         THEN [device_id |-> listing[i].objid, dev |-> <<listing[i]>>]
    ELSE ScanExact(listing, i + 1, name, id, <<listing[i]>>)

\* the for loop of the name lookup from position i on: the device_id and dev it ends with
RECURSIVE Scan(_, _, _, _, _)
Scan(listing, i, name, id, d) ==
    IF i > Len(listing) THEN [device_id |-> id, dev |-> d]
    ELSE IF Contains(Lower(name), Lower(listing[i].device))
         THEN [device_id |-> listing[i].objid, dev |-> <<listing[i]>>]
    ELSE IF Lower(name) = Lower(listing[i].host)
         THEN [device_id |-> listing[i].objid, dev |-> <<listing[i]>>]
    ELSE Scan(listing, i + 1, name, id, <<listing[i]>>)

\* lines 177-197: device_id not given
ResolveByName ==
    /\ pc = "resolve"
    /\ device_id = NoId
    /\ \E status \in Statuses :
        LET m == CallFails(status, MsgRequest)
            found == Scan(devices, 1, params.device_name, device_id, dev)
        IN  /\ calls' = Append(calls, Call(PathTable, NoId, NoId, NoId, NoId, status, m = ""))
            /\ IF m # ""
               THEN /\ Fail(m)
                    /\ UNCHANGED <<device_id, dev>>
               ELSE /\ device_id' = found.device_id
                    /\ dev' = found.dev
                    /\ pc' = "reconcile"
                    /\ UNCHANGED result
    /\ UNCHANGED <<devices, nextId, devices0, params, dest_group, new_dev_id, prev, group_result, create_info>>

\* lines 199-208: device_id given
ResolveById ==
    /\ pc = "resolve"
    /\ device_id # NoId
    /\ \E status \in Statuses :
        LET m == CallFails(status, MsgRequest)
            listed == FilterObjid(devices, device_id)
        IN  /\ calls' = Append(calls, Call(PathTable, NoId, NoId, NoId, device_id, status, m = ""))
            /\ IF m # ""
               THEN /\ Fail(m)
                    /\ UNCHANGED device_id
               ELSE IF listed # <<>>
               THEN IF dev = <<>>
                    THEN /\ Crash(ErrUnbound)
                         /\ UNCHANGED device_id
                    ELSE /\ device_id' = dev[1].objid
                         /\ pc' = "reconcile"
                         /\ UNCHANGED result
               ELSE /\ pc' = "reconcile"
                    /\ UNCHANGED <<device_id, result>>
    /\ UNCHANGED <<devices, nextId, devices0, params, dev, dest_group, new_dev_id, prev, group_result, create_info>>

\* the create branch setting the changed flag only where it made the change
CreateCheckUnchanged ==
    /\ pc = "reconcile"
    /\ params.state = "present"
    /\ device_id = NoId
    /\ IF params.clone_from = NoId
       THEN /\ Fail(MsgCloneFrom)
            /\ UNCHANGED dest_group
       ELSE IF params.check_mode
       THEN /\ Exit(FALSE)
            /\ UNCHANGED dest_group
       ELSE IF params.dest_group # NoId
       THEN /\ dest_group' = params.dest_group
            /\ pc' = "duplicate"
            /\ UNCHANGED result
       ELSE /\ pc' = "group"
            /\ UNCHANGED <<dest_group, result>>
    /\ UNCHANGED <<devices, nextId, devices0, params, device_id, dev, new_dev_id, calls, prev, group_result, create_info>>

\* the create branch without its check-mode test
CreateInCheckMode ==
    /\ pc = "reconcile"
    /\ params.state = "present"
    /\ device_id = NoId
    /\ IF params.clone_from = NoId
       THEN /\ Fail(MsgCloneFrom)
            /\ UNCHANGED dest_group
       ELSE IF params.dest_group # NoId
       THEN /\ dest_group' = params.dest_group
            /\ pc' = "duplicate"
            /\ UNCHANGED result
       ELSE /\ pc' = "group"
            /\ UNCHANGED <<dest_group, result>>
    /\ UNCHANGED <<devices, nextId, devices0, params, device_id, dev, new_dev_id, calls, prev, group_result, create_info>>

\* lines 219-228 and 260: the device is to be created
Create ==
    /\ pc = "reconcile"
    /\ params.state = "present"
    /\ device_id = NoId
    /\ IF params.clone_from = NoId
       THEN /\ Fail(MsgCloneFrom)
            /\ UNCHANGED dest_group
       ELSE IF params.check_mode
       THEN /\ Exit(TRUE)
            /\ UNCHANGED dest_group
       ELSE IF params.dest_group # NoId
       THEN /\ dest_group' = params.dest_group
            /\ pc' = "duplicate"
            /\ UNCHANGED result
       ELSE /\ pc' = "group"
            /\ UNCHANGED <<dest_group, result>>
    /\ UNCHANGED <<devices, nextId, devices0, params, device_id, dev, new_dev_id, calls, prev, group_result, create_info>>

\* lines 230-239: the parent group of clone_from
GroupQuery ==
    /\ pc = "group"
    /\ \E status \in Statuses, body \in GroupBodies :
        LET m == CallFails(status, MsgRequest)
        IN  /\ calls' = Append(calls, Call(PathGroup, params.clone_from, NoId, NoId, NoId, status, m = ""))
            /\ group_result' = IF m = "" THEN body ELSE group_result
            /\ IF m # ""
               THEN /\ Fail(m)
                    /\ UNCHANGED dest_group
               ELSE IF Len(body) < 2
               THEN /\ Crash(ErrIndex)
                    /\ UNCHANGED dest_group
               ELSE IF body[2].tag = "result"
               THEN IF body[2].kids = <<>>
                    THEN /\ Crash(ErrIndex)
                         /\ UNCHANGED dest_group
                    ELSE /\ dest_group' = StrToNat(body[2].kids[1])
                         /\ pc' = "duplicate"
                         /\ UNCHANGED result
               ELSE /\ Fail(MsgGroup)
                    /\ UNCHANGED dest_group
    /\ UNCHANGED <<devices, nextId, devices0, params, device_id, dev, new_dev_id, create_info, prev>>

\* the create step trying again when the call is not answered 200
DuplicateRetry ==
    /\ pc = "duplicate"
    /\ \E status \in Statuses, url \in DuplicateUrls(nextId) :
        LET m == CallFails(status, MsgRequest)
            match == NewDevMatch(url)
        IN  /\ calls' = Append(calls, Call(PathDuplicate, params.clone_from, NoId, dest_group, NoId, status, FALSE))
            /\ create_info' = url
            /\ IF m # ""
               THEN UNCHANGED <<devices, nextId, new_dev_id, pc, result>>
               ELSE /\ devices' = RemoteDuplicate(devices, nextId, params.device_name, params.device_name)
                    /\ nextId' = nextId + 1
                    /\ IF match = <<>>
                       THEN /\ Fail(MsgNewId)
                            /\ UNCHANGED new_dev_id
                       ELSE /\ new_dev_id' = match[1]
                            /\ IF params.enabled
                               THEN /\ pc' = "unpause"
                                    /\ UNCHANGED result
                               ELSE Exit(TRUE)
    /\ UNCHANGED <<devices0, params, device_id, dev, dest_group, group_result, prev>>

\* the create step unpausing the new device whatever enabled says
DuplicateAlwaysUnpause ==
    /\ pc = "duplicate"
    /\ \E status \in Statuses, url \in DuplicateUrls(nextId) :
        LET m == CallFails(status, MsgRequest)
            match == NewDevMatch(url)
        IN  /\ calls' = Append(calls, Call(PathDuplicate, params.clone_from, NoId, dest_group, NoId, status, FALSE))
            /\ create_info' = url
            /\ IF m # ""
               THEN /\ Fail(m)
                    /\ UNCHANGED <<devices, nextId, new_dev_id>>
               ELSE /\ devices' = RemoteDuplicate(devices, nextId, params.device_name, params.device_name)
                    /\ nextId' = nextId + 1
                    /\ IF match = <<>>
                       THEN /\ Fail(MsgNewId)
                            /\ UNCHANGED new_dev_id
                       ELSE /\ new_dev_id' = match[1]
                            /\ pc' = "unpause"
                            /\ UNCHANGED result
    /\ UNCHANGED <<devices0, params, device_id, dev, dest_group, group_result, prev>>

\* lines 242-260: create the device and read its id from the returned URL
Duplicate ==
    /\ pc = "duplicate"
    /\ \E status \in Statuses, url \in DuplicateUrls(nextId) :
        LET m == CallFails(status, MsgRequest)
            match == NewDevMatch(url)
        IN  /\ calls' = Append(calls, Call(PathDuplicate, params.clone_from, NoId, dest_group, NoId, status, FALSE))
            /\ create_info' = url
            /\ IF m # ""
               THEN /\ Fail(m)
                    /\ UNCHANGED <<devices, nextId, new_dev_id>>
               ELSE /\ devices' = RemoteDuplicate(devices, nextId, params.device_name, params.device_name)
                    /\ nextId' = nextId + 1
                    /\ IF match = <<>>
                       THEN /\ Fail(MsgNewId)
                            /\ UNCHANGED new_dev_id
                       ELSE /\ new_dev_id' = match[1]
                            /\ IF params.enabled
                               THEN /\ pc' = "unpause"
                                    /\ UNCHANGED result
                               ELSE Exit(TRUE)
    /\ UNCHANGED <<devices0, params, device_id, dev, dest_group, group_result, prev>>

\* pause_device with its status test reversed: it fails after the call went through
PauseDeviceFailsAfter(id, paused) ==
    \E status \in Statuses :
        LET pause_action == IF paused THEN 0 ELSE 1
            m == CallFails(status, MsgPause)
        IN  /\ calls' = Append(calls, Call(PathPause, id, pause_action, NoId, NoId, status, FALSE))
            /\ IF m # ""
               THEN /\ Exit(TRUE)
                    /\ UNCHANGED devices
               ELSE /\ devices' = RemotePause(devices, id, pause_action)
                    /\ Fail(MsgPause)

\* pause_device(module, id, paused), then what follows it in main: exit_json(changed=True)
PauseDevice(id, paused) ==
    \E status \in Statuses :
        LET pause_action == IF paused THEN 0 ELSE 1
            m == CallFails(status, MsgPause)
        IN  /\ calls' = Append(calls, Call(PathPause, id, pause_action, NoId, NoId, status, FALSE))
            /\ IF m # ""
               THEN /\ Fail(m)
                    /\ UNCHANGED devices
               ELSE /\ devices' = RemotePause(devices, id, pause_action)
                    /\ Exit(TRUE)

\* lines 256-260: unpause the new device
UnpauseNew ==
    /\ pc = "unpause"
    /\ PauseDevice(StrToNat(new_dev_id), FALSE)
    /\ UNCHANGED <<nextId, devices0, params, device_id, dev, dest_group, new_dev_id, prev, group_result, create_info>>

\* lines 263-273: the device exists and is to be present
Existing ==
    /\ pc = "reconcile"
    /\ params.state = "present"
    /\ device_id # NoId
    /\ IF dev = <<>>
       THEN /\ Crash(ErrUnbound)
            /\ UNCHANGED <<devices, calls>>
       ELSE IF params.enabled = TRUE /\ dev[1].active_raw = ActivePaused
       THEN IF ~params.check_mode
            THEN PauseDevice(device_id, FALSE)
            ELSE /\ Exit(TRUE)
                 /\ UNCHANGED <<devices, calls>>
       ELSE IF params.enabled = FALSE /\ dev[1].active_raw = ActiveRunning
       THEN IF ~params.check_mode
            THEN PauseDevice(device_id, TRUE)
            ELSE /\ Exit(TRUE)
                 /\ UNCHANGED <<devices, calls>>
       ELSE /\ Exit(FALSE)
            /\ UNCHANGED <<devices, calls>>
    /\ UNCHANGED <<nextId, devices0, params, device_id, dev, dest_group, new_dev_id, prev, group_result, create_info>>

\* the delete branch without its check-mode test
DeleteInCheckMode ==
    /\ pc = "reconcile"
    /\ params.state = "absent"
    /\ device_id # NoId
    /\ \E status \in Statuses :
          LET m == CallFails(status, MsgDelete)
          IN  /\ calls' = Append(calls, Call(PathDelete, device_id, NoId, NoId, NoId, status, FALSE))
              /\ IF m # ""
                 THEN /\ Fail(m)
                      /\ UNCHANGED devices
                 ELSE /\ devices' = RemoteDelete(devices, device_id)
                      /\ Exit(TRUE)
    /\ UNCHANGED <<nextId, devices0, params, device_id, dev, dest_group, new_dev_id, prev, group_result, create_info>>

\* lines 277-286: the device exists and is to be absent
Delete ==
    /\ pc = "reconcile"
    /\ params.state = "absent"
    /\ device_id # NoId
    /\ IF ~params.check_mode
       THEN \E status \in Statuses :
              LET m == CallFails(status, MsgDelete)
              IN  /\ calls' = Append(calls, Call(PathDelete, device_id, NoId, NoId, NoId, status, FALSE))
                  /\ IF m # ""
                     THEN /\ Fail(m)
                          /\ UNCHANGED devices
                     ELSE /\ devices' = RemoteDelete(devices, device_id)
                          /\ Exit(TRUE)
       ELSE /\ Exit(TRUE)
            /\ UNCHANGED <<devices, calls>>
    /\ UNCHANGED <<nextId, devices0, params, device_id, dev, dest_group, new_dev_id, prev, group_result, create_info>>

\* lines 289-296: the device is absent and is to be absent
AlreadyAbsent ==
    /\ pc = "reconcile"
    /\ params.state = "absent"
    /\ device_id = NoId
    /\ Exit(FALSE)
    /\ UNCHANGED <<devices, nextId, devices0, params, device_id, dev, dest_group,
                   new_dev_id, calls, prev, group_result, create_info>>

Next ==
    \/ ResolveByName
    \/ ResolveById
    \/ Create
    \/ GroupQuery
    \/ Duplicate
    \/ UnpauseNew
    \/ Existing
    \/ Delete
    \/ AlreadyAbsent

Spec == Init /\ [][Next]_vars

----------------------------------------------------------------------------
(* Two invocations in direct succession, no other writer *)

AllOk(cs) == \A i \in 1..Len(cs) : cs[i].status = 200

NoMutating(cs) == \A i \in 1..Len(cs) : cs[i].path \notin MutatingPaths

\* what is kept of a finished invocation
Summary ==
    [check_mode |-> params.check_mode, devices0 |-> devices0, kind |-> result.kind,
     changed |-> result.changed, msg |-> result.msg, ok |-> AllOk(calls),
     mutating |-> ~NoMutating(calls)]

InitTwice ==
    /\ Init
    /\ Len(devices) < MaxDevices

\* the module is run again with the same task arguments: a new process, so
\* main's locals start afresh; only the check-mode flag may differ
Rerun ==
    /\ pc = "done"
    /\ prev = <<>>
    /\ prev' = <<Summary>>
    /\ \E cm \in BOOLEAN : params' = [params EXCEPT !.check_mode = cm]
    /\ devices0' = devices
    /\ pc' = "resolve"
    /\ device_id' = params.device_id
    /\ dev' = <<>>
    /\ dest_group' = NoId
    /\ new_dev_id' = <<>>
    /\ group_result' = <<>>
    /\ create_info' = <<>>
    /\ calls' = <<>>
    /\ result' = NoResult
    /\ UNCHANGED <<devices, nextId>>

NextTwice ==
    \/ Next
    \/ Rerun

SpecTwice == InitTwice /\ [][NextTwice]_vars

----------------------------------------------------------------------------
(* What the documented contract expects, stated on the remote listing the   *)
(* invocation started from                                                  *)

\* the name lookup's predicate: name as a substring, or host in full, both
\* without regard to case
NameMatch(name, d) ==
    \/ Contains(Lower(name), Lower(d.device))
    \/ Lower(name) = Lower(d.host)

ResolvingIndexes(listing, p) ==
    IF p.device_id # NoId
    THEN {i \in 1..Len(listing) : listing[i].objid = p.device_id}
    ELSE {i \in 1..Len(listing) : NameMatch(p.device_name, listing[i])}

Resolves(listing, p) == ResolvingIndexes(listing, p) # {}

\* the device the resolver is documented to find: the first one in listing order
Resolved(listing, p) ==
    listing[CHOOSE i \in ResolvingIndexes(listing, p) :
                \A j \in ResolvingIndexes(listing, p) : i <= j]

Mutation(path, id, action) == [path |-> path, id |-> id, action |-> action]

\* the mutating calls of cs, in order
Mutations(cs) ==
    LET IsMutating(c) == c.path \in MutatingPaths
        m == SelectSeq(cs, IsMutating)
    IN  [i \in 1..Len(m) |-> Mutation(m[i].path, m[i].id, m[i].action)]

\* the mutating calls of the transition table for configuration p on listing;
\* newid is the id of the device a duplicate call creates
TableMutations(p, listing, newid) ==
    IF p.state = "present"
    THEN IF ~Resolves(listing, p)
         THEN <<Mutation(PathDuplicate, p.clone_from, NoId)>>
              \o (IF p.enabled THEN <<Mutation(PathPause, newid, 1)>> ELSE <<>>)
         ELSE IF p.enabled /\ Resolved(listing, p).active_raw = ActivePaused
         THEN <<Mutation(PathPause, Resolved(listing, p).objid, 1)>>
         ELSE IF ~p.enabled /\ Resolved(listing, p).active_raw = ActiveRunning
         THEN <<Mutation(PathPause, Resolved(listing, p).objid, 0)>>
         ELSE <<>>
    ELSE IF Resolves(listing, p)
         THEN <<Mutation(PathDelete, Resolved(listing, p).objid, NoId)>>
         ELSE <<>>

\* the invocation is over and no failure of the transition table's own has
\* occurred: every call answered 200, clone_from given where a device is to be
\* created, a parent group and a new id could be read
TableApplies ==
    /\ pc = "done"
    /\ AllOk(calls)
    /\ result.msg \notin {MsgCloneFrom, MsgGroup, MsgNewId, ErrIndex}

\* C1: in a non-check invocation, for every desired state, observed existence,
\* enabled flag and active_raw, by device_id or by device_name, the mutating
\* calls issued are exactly those of the transition table and changed is
\* reported accordingly.
C1_TransitionTable ==
    (TableApplies /\ ~params.check_mode) =>
        /\ result.kind = "exit"
        /\ Mutations(calls) = TableMutations(params, devices0, nextId - 1)
        /\ result.changed = (TableMutations(params, devices0, nextId - 1) # <<>>)

\* C2: the same configuration applied twice in direct succession: the first
\* run succeeds, the second run succeeds with changed=false and issues no
\* mutating call.
C2_Idempotence ==
    (/\ Len(prev) = 1
     /\ pc = "done"
     /\ ~prev[1].check_mode /\ ~params.check_mode
     /\ prev[1].ok /\ AllOk(calls)
     /\ prev[1].msg \notin {MsgCloneFrom, MsgGroup, MsgNewId, ErrIndex}
     /\ result.msg \notin {MsgCloneFrom, MsgGroup, MsgNewId, ErrIndex}) =>
        /\ prev[1].kind = "exit"
        /\ prev[1].changed = prev[1].mutating
        /\ result.kind = "exit"
        /\ result.changed = FALSE
        /\ NoMutating(calls)

\* C3: with device_id given and an empty id-filtered listing, the device is
\* not found: state=absent issues no delete call and reports changed=false,
\* state=present takes the create path.
C3_ByIdNotFound ==
    (/\ pc = "done"
     /\ params.device_id # NoId
     /\ Len(calls) >= 1 /\ calls[1].status = 200
     /\ FilterObjid(devices0, params.device_id) = <<>>) =>
        IF params.state = "absent"
        THEN /\ result.kind = "exit"
             /\ result.changed = FALSE
             /\ \A i \in 1..Len(calls) : calls[i].path # PathDelete
        ELSE IF params.clone_from = NoId
             THEN result.kind = "fail" /\ result.msg = MsgCloneFrom
             ELSE IF params.check_mode
                  THEN result.kind = "exit" /\ result.changed = TRUE
                  ELSE \E i \in 1..Len(calls) : calls[i].path \in {PathGroup, PathDuplicate}

\* C4: an existing device resolved by device_id with state=present: the
\* pause/unpause decision is taken from the active_raw of the record fetched
\* for that id and the invocation ends with a success result.
C4_ByIdUsesFetchedRecord ==
    (/\ pc = "done"
     /\ AllOk(calls)
     /\ params.device_id # NoId
     /\ params.state = "present"
     /\ FilterObjid(devices0, params.device_id) # <<>>) =>
        LET rec == FilterObjid(devices0, params.device_id)[1]
        IN  /\ result.kind = "exit"
            /\ result.changed =
                 ( \/ params.enabled /\ rec.active_raw = ActivePaused
                   \/ ~params.enabled /\ rec.active_raw = ActiveRunning )

\* C5: in check mode no call to the pause, duplicateobject or deleteobject
\* endpoints is ever issued.
C5_DryRunSafety ==
    params.check_mode => NoMutating(calls)

\* a check-mode invocation that predicted a change on a device that exists
C5_Witness ==
    /\ pc = "done"
    /\ params.check_mode
    /\ result.kind = "exit" /\ result.changed
    /\ Resolves(devices0, params)

\* C6: a check-mode invocation and a non-check invocation of the same
\* configuration on the same remote state that both report a changed value
\* report the same one.
C6_DryRunPrediction ==
    (/\ Len(prev) = 1
     /\ pc = "done"
     /\ prev[1].check_mode /\ ~params.check_mode
     /\ prev[1].kind = "exit" /\ result.kind = "exit") =>
        /\ devices0 = prev[1].devices0
        /\ result.changed = prev[1].changed

\* a check-mode run predicted a change and the real run after it made one
C6_Witness ==
    /\ Len(prev) = 1
    /\ pc = "done"
    /\ prev[1].check_mode /\ ~params.check_mode
    /\ prev[1].kind = "exit" /\ prev[1].changed
    /\ result.kind = "exit" /\ result.changed
    /\ ~NoMutating(calls)

\* C7: the duplicateobject call is issued only when no device resolves, by the
\* given id or by name substring or exact host without regard to case.
C7_NoDuplicateDevice ==
    \A i \in 1..Len(calls) :
        calls[i].path = PathDuplicate => ~Resolves(devices0, params)

\* a device was created next to existing devices none of which resolves
C7_Witness ==
    /\ devices0 # <<>>
    /\ \E i \in 1..Len(calls) : calls[i].path = PathDuplicate /\ calls[i].status = 200
    /\ Len(devices) = Len(devices0) + 1

\* C8: state=present, device not found, clone_from not given: the invocation
\* ends in failure and issues no duplicate, pause or delete call, in check
\* mode and in normal mode.
C8_CreateWithoutCloneFrom ==
    (/\ pc = "done"
     /\ Len(calls) >= 1 /\ calls[1].status = 200
     /\ params.state = "present"
     /\ params.clone_from = NoId
     /\ ~Resolves(devices0, params)) =>
        /\ result.kind = "fail"
        /\ NoMutating(calls)

\* C9: a call whose status is not 200 is the last call of its invocation, and
\* the invocation has ended in failure.
C9_FailFast ==
    \A i \in 1..Len(calls) :
        calls[i].status # 200 =>
            /\ i = Len(calls)
            /\ pc = "done"
            /\ result.kind = "fail"

\* a second call was answered 302 and the invocation failed
C9_Witness ==
    /\ Len(calls) >= 2
    /\ calls[Len(calls)].status = 302
    /\ result.kind = "fail"

\* C10: 401, 404, 400 and an absent status each fail with their own message,
\* and the body of such a response is not read.
C10_StatusMapping ==
    \A i \in 1..Len(calls) :
        LET st == calls[i].status
        IN  st \in {401, 404, 400, NoStatus} =>
                /\ result.kind = "fail"
                /\ ~calls[i].read
                /\ st = 401 => result.msg = "Invalid API credentials"
                /\ st = 404 => result.msg = "Invalid API URL"
                /\ st = 400 => result.msg = "The API call could not be completed successfully"
                /\ st = NoStatus => result.msg = "Unable to reach API server"

\* a listing whose body would be parsed was answered 400
C10_Witness ==
    /\ Len(calls) = 1
    /\ calls[1].path = PathTable
    /\ calls[1].status = 400
    /\ result.msg = MsgBadRequest

\* C11: every finished invocation has exactly one terminal outcome, a success
\* result with changed or a failure result with a message, never an uncaught
\* error.
C11_OneTerminalOutcome ==
    pc = "done" => result.kind \in {"exit", "fail"}

\* the mutating calls of cs that the server carried out
Carried(cs) ==
    LET Done(c) == c.path \in MutatingPaths /\ c.status = 200
    IN  SelectSeq(cs, Done)

\* C12 as claimed: an invocation that ends in failure leaves the remote's
\* devices and pause states as they were at its start.
C12_NoPartialSuccess ==
    (pc = "done" /\ result.kind = "fail") => devices = devices0

\* C12 as amended: an invocation that ends in failure has had at most one
\* mutating call carried out, and only the duplicate call: the remote is then
\* its starting listing plus the new device, paused; otherwise it is unchanged.
C12_FailureLeavesAtMostTheClone ==
    (pc = "done" /\ result.kind = "fail") =>
        /\ Len(Carried(calls)) <= 1
        /\ IF Carried(calls) = <<>>
           THEN devices = devices0
           ELSE /\ Carried(calls)[1].path = PathDuplicate
                /\ devices = Append(devices0,
                       Device(nextId - 1, params.device_name, params.device_name, ActivePaused))

\* the unpause call of the create flow failed after the device was created
C12_Witness ==
    /\ pc = "done"
    /\ result.kind = "fail"
    /\ Len(calls) >= 2
    /\ calls[Len(calls)].path = PathPause
    /\ calls[Len(calls)].status = 500
    /\ Len(devices) = Len(devices0) + 1

\* C13: without device_id the lookup takes the first listed device whose name
\* contains device_name or whose host equals it, both without regard to case;
\* a host that only contains device_name does not count; with no such device
\* nothing is found; the device taken gives the pause decision and the id of
\* the pause or delete call.
C13_NameResolution ==
    (/\ params.device_id = NoId
     /\ pc # "resolve"
     /\ calls[1].status = 200) =>
        IF Resolves(devices0, params)
        THEN LET found == Resolved(devices0, params)
             IN  /\ device_id = found.objid
                 /\ dev = <<found>>
                 /\ \A i \in 1..Len(calls) :
                        calls[i].path \in {PathPause, PathDelete} => calls[i].id = found.objid
                 /\ (pc = "done" /\ AllOk(calls) /\ params.state = "present") =>
                        /\ result.kind = "exit"
                        /\ result.changed =
                             ( \/ params.enabled /\ found.active_raw = ActivePaused
                               \/ ~params.enabled /\ found.active_raw = ActiveRunning )
        ELSE /\ device_id = NoId
             /\ \A i \in 1..Len(calls) : calls[i].path # PathDelete
             /\ \A i \in 1..Len(calls) :
                    calls[i].path = PathPause =>
                        \E j \in 1..(i - 1) : calls[j].path = PathDuplicate

\* the first listed device has a host that only contains the name, the second
\* one matches and is the one the pause call goes to
C13_Witness ==
    /\ params.device_id = NoId
    /\ Len(devices0) = 2
    /\ ~NameMatch(params.device_name, devices0[1])
    /\ Contains(Lower(params.device_name), Lower(devices0[1].host))
    /\ NameMatch(params.device_name, devices0[2])
    /\ \E i \in 1..Len(calls) :
           /\ calls[i].path = PathPause
           /\ calls[i].status = 200
           /\ calls[i].id = devices0[2].objid

\* C14: an invocation issues at most 4 API calls.
C14_AtMostFourCalls ==
    Len(calls) <= 4

\* listing, parent group, duplicate and unpause, in this order
C14_Witness ==
    /\ Len(calls) = 4
    /\ calls[1].path = PathTable
    /\ calls[2].path = PathGroup
    /\ calls[3].path = PathDuplicate
    /\ calls[4].path = PathPause

\* the positions of the calls to path in cs
CallsTo(cs, path) == {i \in 1..Len(cs) : cs[i].path = path}

\* C15: in the create flow the duplicate call comes before any unpause call;
\* the unpause call is issued exactly when enabled is true, the duplicate call
\* was answered 200 and a numeric id was read from the returned URL, and it
\* goes to that id; without an id the invocation fails and issues no unpause
\* call; a successful create reports changed=true.
C15_CreateFlowOrder ==
    \A d \in CallsTo(calls, PathDuplicate) :
        LET extracted == NewDevMatch(create_info)
            unpauses == CallsTo(calls, PathPause)
        IN  /\ ~params.check_mode
            /\ \A p \in unpauses :
                   /\ p = d + 1
                   /\ calls[d].status = 200
                   /\ params.enabled
                   /\ extracted # <<>>
                   /\ calls[p].action = 1
                   /\ calls[p].id = StrToNat(extracted[1])
                   /\ calls[p].id = devices[Len(devices)].objid
            /\ (pc = "done" /\ calls[d].status = 200) =>
                   /\ (unpauses # {}) = (params.enabled /\ extracted # <<>>)
                   /\ extracted = <<>> =>
                          result.kind = "fail" /\ result.msg = MsgNewId
                   /\ result.kind = "exit" => result.changed = TRUE
                   /\ (extracted # <<>> /\ ~params.enabled) =>
                          result.kind = "exit" /\ result.changed = TRUE

\* a device was created, its id read from the URL and the device unpaused
C15_Witness ==
    /\ pc = "done"
    /\ result.kind = "exit" /\ result.changed
    /\ \E d \in CallsTo(calls, PathDuplicate), p \in CallsTo(calls, PathPause) :
           /\ d < p
           /\ calls[p].status = 200
           /\ calls[p].id = StrToNat(NewDevMatch(create_info)[1])
    /\ devices[Len(devices)].active_raw = ActiveRunning

\* a parent group can be read from document b: its second element is a result
\* with a child
GroupReadable(b) ==
    /\ Len(b) >= 2
    /\ b[2].tag = "result"
    /\ b[2].kids # <<>>

\* C16: with dest_group given no parent-group query is issued and the duplicate
\* call's targetid is dest_group; without it exactly one parent-group query for
\* clone_from precedes the duplicate call, whose targetid is the group id of
\* that response; when no parent group can be read the invocation fails and
\* issues no duplicate call.
C16_DestinationGroup ==
    LET groups == CallsTo(calls, PathGroup)
        dups == CallsTo(calls, PathDuplicate)
    IN  /\ params.dest_group # NoId =>
               /\ groups = {}
               /\ \A d \in dups : calls[d].targetid = params.dest_group
        /\ params.dest_group = NoId =>
               \A d \in dups :
                   /\ Cardinality(groups) = 1
                   /\ \A g \in groups :
                          /\ g < d
                          /\ calls[g].id = params.clone_from
                          /\ calls[g].status = 200
                   /\ GroupReadable(group_result)
                   /\ calls[d].targetid = StrToNat(group_result[2].kids[1])
        /\ (/\ pc = "done"
            /\ \E g \in groups : calls[g].status = 200
            /\ ~GroupReadable(group_result)) =>
               /\ result.kind = "fail"
               /\ dups = {}

\* C17: state=present and the device found with an active_raw that is neither
\* the paused nor the active code: no pause or unpause call is issued and
\* changed=false is reported, whatever enabled is.
C17_UnknownStateUntouched ==
    (/\ pc = "done"
     /\ calls[1].status = 200
     /\ params.state = "present"
     /\ Resolves(devices0, params)
     /\ Resolved(devices0, params).active_raw \notin {ActivePaused, ActiveRunning}) =>
        /\ result.kind = "exit"
        /\ result.changed = FALSE
        /\ CallsTo(calls, PathPause) = {}

\* C18: a check-mode invocation issues exactly one API call, the device
\* listing; the parent-group query is not issued, and a check-mode create
\* reports changed=true without a destination group having been resolved.
C18_CheckModeOneCall ==
    params.check_mode =>
        /\ Len(calls) <= 1
        /\ pc # "resolve" => (Len(calls) = 1 /\ calls[1].path = PathTable)
        /\ (/\ pc = "done"
            /\ calls[1].status = 200
            /\ params.state = "present"
            /\ params.clone_from # NoId
            /\ params.device_id = NoId
            /\ ~Resolves(devices0, params)) =>
               /\ result.kind = "exit"
               /\ result.changed = TRUE
               /\ dest_group = NoId
               /\ group_result = <<>>

\* a check-mode create without dest_group ended with changed=true after the
\* listing alone
C18_Witness ==
    /\ params.check_mode
    /\ pc = "done"
    /\ params.state = "present"
    /\ params.dest_group = NoId
    /\ params.clone_from # NoId
    /\ ~Resolves(devices0, params)
    /\ Len(calls) = 1
    /\ result.kind = "exit" /\ result.changed

====
